---- MODULE Spec2Model ----
(***************************************************************************)
(* State-machine model of dataset_builder (src/dataset_builder/src/main.rs)*)
(* The five sub-commands are modelled as they are coded: filter_csv,       *)
(* clone_repos, run_outputs (with analyze_repo, measure!, run_cmd and      *)
(* run_ext_cmd), collect_code_all (with collect_code) and run_full.        *)
(*                                                                         *)
(* Environment assumptions, stated once:                                   *)
(*  - writes to an already opened output file succeed (opening it may      *)
(*    fail); a BufWriter holds what was written until its buffer is full   *)
(*    or it is dropped, and a killed process drops nothing;                *)
(*  - text is a sequence of characters, a process stream a sequence of     *)
(*    bytes, a file a sequence of written pieces.                          *)
(***************************************************************************)
EXTENDS Naturals, Sequences, FiniteSets, TLC

(* ------------------------------ bounds --------------------------------- *)

\* Longest stdout / stderr of a modelled child process, in bytes.
MaxOut == 2
\* Most data rows of the CSV input.
MaxRows == 2
\* Most lines of the names file given to clone_repos.
MaxNames == 2
\* Longest repository name, in characters.
MaxLen == 2
\* Most entries of the root directory given to run_outputs.
MaxEntries == 3
\* Capacity of a BufWriter, counted in written pieces.
BufCap == 16

(* --------------------------- generic helpers --------------------------- *)

\* All sequences over S of length lo..hi.
SeqsOf(S, lo, hi) == UNION { [1..n -> S] : n \in lo..hi }

\* All orderings without repetition of the finite set S.
RECURSIVE Perms(_)
Perms(S) ==
  IF S = {} THEN { <<>> }
  ELSE UNION { { <<x>> \o p : p \in Perms(S \ {x}) } : x \in S }

\* Position of x in the sequence s (0 when absent).
IndexOf(s, x) ==
  IF \E i \in 1..Len(s) : s[i] = x
  THEN CHOOSE i \in 1..Len(s) : s[i] = x /\ \A j \in 1..(i-1) : s[j] # x
  ELSE 0

(* ------------------------ process runner (161-176) --------------------- *)

\* A byte that is ASCII 'a' and a byte that can never occur in UTF-8.
Bytes == {97, 255}
ReplacementChar == 65533

\* String::from_utf8_lossy: valid bytes decode to their character, an invalid
\* byte to U+FFFD.
from_utf8_lossy(bytes) ==
  [i \in 1..Len(bytes) |-> IF bytes[i] < 128 THEN bytes[i] ELSE ReplacementChar]

\* The expression shared by lines 167 and 175: stdout if non-empty, else stderr.
capture(out) ==
  from_utf8_lossy(IF out.stdout # <<>> THEN out.stdout ELSE out.stderr)

\* A runner that takes a non-zero exit status for a failure.
run_cmd_Mut(p) ==
  IF p.spawn /\ p.exit = 0 THEN [ok |-> TRUE, text |-> capture(p)]
  ELSE [ok |-> FALSE, text |-> <<>>]

\* Command::output()? : an error when the process cannot be spawned, else the
\* Output of the exited process whatever its exit status.
run_cmd(p) ==
  IF p.spawn THEN [ok |-> TRUE, text |-> capture(p)]
  ELSE [ok |-> FALSE, text |-> <<>>]

\* The same for an executable other than cargo (lines 170-176).
run_ext_cmd(p) ==
  IF p.spawn THEN [ok |-> TRUE, text |-> capture(p)]
  ELSE [ok |-> FALSE, text |-> <<>>]

ExitCodes == {0, 1, 101}

\* What the operating system may answer to one Command::output().
ProcOutcomes ==
  [spawn : BOOLEAN,
   stdout : SeqsOf(Bytes, 0, MaxOut),
   stderr : SeqsOf(Bytes, 0, MaxOut),
   exit : ExitCodes,
   ms : {0}]

(* ------------------------ BufWriter and files -------------------------- *)

\* Every write the program makes is one piece [k, slot, v]; a newline is the
\* piece of kind "nl".
Piece(k, slot, v) == [k |-> k, slot |-> slot, v |-> v]
Newline == Piece("nl", "-", <<>>)
Size(p) == 1

\* BufWriter::write_all on st = [file, buf]: the piece is buffered while it
\* fits; a piece that does not fit flushes the buffer first, and a piece as
\* large as the whole buffer goes straight to the file.
BufWrite(st, p) ==
  LET spare == BufCap - Len(st.buf) IN
  IF Size(p) < spare
  THEN [file |-> st.file, buf |-> Append(st.buf, p)]
  ELSE LET fl == IF Size(p) > spare
                 THEN [file |-> st.file \o st.buf, buf |-> <<>>]
                 ELSE st
       IN IF Size(p) >= BufCap
          THEN [file |-> fl.file \o <<p>>, buf |-> fl.buf]
          ELSE [file |-> fl.file, buf |-> Append(fl.buf, p)]

RECURSIVE BufWriteAll(_, _)
BufWriteAll(st, ps) ==
  IF Len(ps) = 0 THEN st ELSE BufWriteAll(BufWrite(st, Head(ps)), Tail(ps))

\* Drop of a BufWriter (end of scope, also on an early `?` return): what is
\* still buffered is written out.
BufDrop(st) == [file |-> st.file \o st.buf, buf |-> <<>>]

RECURSIVE Split(_, _, _, _, _)
Split(content, i, cur, acc, keepTail) ==
  IF i > Len(content)
  THEN IF keepTail /\ Len(cur) > 0 THEN Append(acc, cur) ELSE acc
  ELSE IF content[i].k = "nl"
       THEN Split(content, i + 1, <<>>, Append(acc, cur), keepTail)
       ELSE Split(content, i + 1, Append(cur, content[i]), acc, keepTail)

\* str::lines: the lines of a file, a last line without newline included.
SplitLines(content) == Split(content, 1, <<>>, <<>>, TRUE)
\* The newline-terminated lines of a file.
CompleteLines(content) == Split(content, 1, <<>>, <<>>, FALSE)

RECURSIVE LineText(_)
LineText(line) ==
  IF Len(line) = 0 THEN <<>> ELSE Head(line).v \o LineText(Tail(line))

NoFile == [exists |-> FALSE, content |-> <<>>]
EmptyFile == [exists |-> TRUE, content |-> <<>>]

(* ----------------------------- filter_csv ------------------------------ *)

Chars == {"a", "/", "_"}
FlagStr == {"true", "false", "yes"}

\* <bool as FromStr>: only the two literals parse.
ParseBool(s) == [ok |-> s \in {"true", "false"}, val |-> s = "true"]

\* rdr.deserialize::<(String, String, bool, bool)>() of one record.
Deserialize(row) ==
  LET t == ParseBool(row.has_toml)
      l == ParseBool(row.has_lock)
  IN [ok |-> t.ok /\ l.ok, name |-> row.name, has_toml |-> t.val, has_lock |-> l.val]

\* The test of line 88 without its second operand.
Keep_Mut(has_toml, has_lock) == has_toml

\* The test of line 88.
Keep(has_toml, has_lock) == has_toml /\ has_lock

\* ReaderBuilder::new() reads with has_headers(true): the first record of the
\* file is the header and is never yielded as data.
FirstDataRecord == 2

HeaderRow == [id |-> "id", name |-> <<"name">>, has_toml |-> "has_toml", has_lock |-> "has_lock"]
CsvNames == { <<"a", "/", "b">>, <<"c", "/", "d">> }
CsvRows == [id : {"1"}, name : CsvNames, has_toml : FlagStr, has_lock : FlagStr]
CsvFiles == { [exists |-> TRUE, records |-> <<HeaderRow>> \o rows] : rows \in SeqsOf(CsvRows, 0, MaxRows) }
NoCsv == [exists |-> FALSE, records |-> <<>>]

(* ----------------------------- clone_repos ----------------------------- *)

\* A sanitize that replaces nothing.
sanitize_Mut(name) == name

\* name.replace('/', "_")
sanitize(name) == [i \in 1..Len(name) |-> IF name[i] = "/" THEN "_" ELSE name[i]]

\* Path::new(out_root).join(format!("dataset_{}", sanitize(name))), as the
\* name of the subdirectory of out_root.
Dest(name) == <<"dataset_">> \o sanitize(name)

\* The content of a fetched repository: path, whether the file is valid UTF-8,
\* whether the standard filters of the walker hide it, and its text.
RemoteFiles ==
  { [path |-> <<"src", "main.rs">>, utf8 |-> TRUE, hidden |-> FALSE, text |-> "fn main"],
    [path |-> <<"target", "build.rs">>, utf8 |-> TRUE, hidden |-> FALSE, text |-> "built"],
    [path |-> <<".idea", "workspace.xml">>, utf8 |-> TRUE, hidden |-> TRUE, text |-> "xml"],
    [path |-> <<"logo.png">>, utf8 |-> FALSE, hidden |-> FALSE, text |-> "png"] }

DirEntry(name, files, origin) == [name |-> name, kind |-> "dir", files |-> files, origin |-> origin]
FileEntry(name) == [name |-> name, kind |-> "file", files |-> {}, origin |-> <<>>]
\* An Err yielded by the ReadDir iterator.
ErrEntry == [name |-> <<>>, kind |-> "err", files |-> {}, origin |-> <<>>]

NoRoot == [exists |-> FALSE, entries |-> {}]

NamePool == SeqsOf(Chars, 1, MaxLen)
NamesFiles ==
  { [exists |-> TRUE,
     content |-> [i \in 1..(2 * Len(ns)) |->
                    IF i % 2 = 1 THEN Piece("str", "-", ns[(i + 1) \div 2]) ELSE Newline]]
    : ns \in SeqsOf(NamePool, 0, MaxNames) }

(* ------------------------ analyze_repo, registry ----------------------- *)

\* Declaration order of the analyzer fields of OutputEntry and of Times,
\* which is the order #[derive(Serialize)] writes them in.
FieldOrder ==
  <<"clippy", "fmt", "audit", "auditable", "deny", "semgrep", "geiger", "codeql", "tree", "ast">>

\* Order of the ten measure! statements of analyze_repo.
InvocationOrder ==
  <<"clippy", "fmt", "audit", "auditable", "deny", "geiger", "tree", "ast", "semgrep", "codeql">>

Slots == { FieldOrder[i] : i \in 1..Len(FieldOrder) }
NumSlots == Len(InvocationOrder)

\* Which runner a slot goes through, and the executable it spawns.
Runner(slot) ==
  IF slot \in {"tree", "ast", "semgrep", "codeql"} THEN "run_ext_cmd" ELSE "run_cmd"
Exe(slot) ==
  CASE slot = "ast" -> "rustc"
    [] slot = "semgrep" -> "semgrep"
    [] slot = "codeql" -> "codeql"
    [] OTHER -> "cargo"
Executables == { Exe(s) : s \in Slots }

\* let mut times = Times { clippy:0, ... }
ZeroTimes == [s \in Slots |-> 0]

\* The machine the batch runs on: every analyzer works ("fine"), one executable
\* is not installed ("absent"), the spawn of one slot fails for another reason
\* ("spawnerr"), or one analyzer exits non-zero ("nonzero", three variants of
\* what it wrote).
NoEnv == [kind |-> "unset", who |-> "-", variant |-> 0]
Envs ==
  { [kind |-> "fine", who |-> "-", variant |-> 0] }
  \cup { [kind |-> "absent", who |-> e, variant |-> 0] : e \in Executables }
  \cup { [kind |-> "spawnerr", who |-> s, variant |-> 0] : s \in Slots }
  \cup { [kind |-> "nonzero", who |-> s, variant |-> v] : s \in Slots, v \in 1..3 }

\* What spawning the analyzer of a slot gives on machine e. A working analyzer
\* writes one character of its own to stdout and takes as many milliseconds as
\* its place in the invocation order.
ProcOf(e, slot) ==
  LET good == [spawn |-> TRUE, stdout |-> <<96 + IndexOf(FieldOrder, slot)>>,
               stderr |-> <<>>, exit |-> 0, ms |-> IndexOf(InvocationOrder, slot)]
  IN CASE e.kind = "absent" /\ e.who = Exe(slot) ->
            [good EXCEPT !.spawn = FALSE, !.stdout = <<>>, !.ms = 0]
       [] e.kind = "spawnerr" /\ e.who = slot ->
            [good EXCEPT !.spawn = FALSE, !.stdout = <<>>, !.ms = 3]
       [] e.kind = "nonzero" /\ e.who = slot /\ e.variant = 1 ->
            [good EXCEPT !.stdout = <<>>, !.stderr = <<69>>, !.exit = 1]
       [] e.kind = "nonzero" /\ e.who = slot /\ e.variant = 2 ->
            [good EXCEPT !.stderr = <<69, 255>>, !.exit = 101]
       [] e.kind = "nonzero" /\ e.who = slot /\ e.variant = 3 ->
            [good EXCEPT !.stdout = <<>>, !.exit = 1, !.ms = 0]
       [] OTHER -> good

\* serde_json::to_writer(&mut w, &out): the fields of OutputEntry in
\* declaration order, then those of Times.
Serialize(out) ==
  <<Piece("name", "-", out.name)>>
  \o [i \in 1..Len(FieldOrder) |-> Piece("text", FieldOrder[i], out.texts[FieldOrder[i]])]
  \o [i \in 1..Len(FieldOrder) |-> Piece("time_ms", FieldOrder[i], out.time_ms[FieldOrder[i]])]

\* An is_dir that is true of plain files as well.
is_dir_Mut(entry) == entry.kind \in {"dir", "file"}

\* path.is_dir()
is_dir(entry) == entry.kind = "dir"

(* --------------------------- collect_code ------------------------------ *)

\* The walker's filters: standard filters, regular files only, nothing under
\* target/, .idea/ or .vscode/; a file that is not UTF-8 is skipped.
Collected(f) ==
  /\ ~f.hidden
  /\ f.path[1] \notin {"target", ".idea", ".vscode"}
  /\ f.utf8

SerializeCode(name, f) ==
  <<Piece("name", "-", name), Piece("path", "-", f.path), Piece("content", "-", f.text), Newline>>

RECURSIVE Flatten(_)
Flatten(ss) == IF Len(ss) = 0 THEN <<>> ELSE Head(ss) \o Flatten(Tail(ss))

(* ------------------------------ run_full ------------------------------- *)

\* A run_full whose steps drop their results.
run_full_next_Mut(fn, ok) ==
  CASE fn = "filter_csv" -> "clone_repos"
    [] fn = "clone_repos" -> "run_outputs"
    [] fn = "run_outputs" -> "collect_code_all"
    [] OTHER -> "done"

\* The `?` after each step of run_full: an error ends run_full, success goes on
\* to the next step.
run_full_next(fn, ok) ==
  IF ~ok THEN "done"
  ELSE CASE fn = "filter_csv" -> "clone_repos"
         [] fn = "clone_repos" -> "run_outputs"
         [] fn = "run_outputs" -> "collect_code_all"
         [] OTHER -> "done"

(* ------------------------------- state --------------------------------- *)

VARIABLES
  cmd,          \* the sub-command main dispatched to
  pc,           \* where the program is
  result,       \* what main's match arm returned: "none", "Ok" or "Err"
  calls,        \* the pipeline functions entered so far, each with its result
  csvFile,      \* the tabular input: [exists, records]
  namesFile,    \* the names list: [exists, content]
  root,         \* the directory of repositories: [exists, entries]
  outputsFile,  \* the output of run_outputs: [exists, content]
  codeFile,     \* the output of collect_code_all: [exists, content]
  buf,          \* the buffer of the BufWriter `w` in scope
  rdrPos,       \* filter_csv: next record of the CSV reader
  names,        \* clone_repos: names.lines()
  nameIdx,      \* clone_repos: position in names
  iter,         \* the entries fs::read_dir has not yielded yet
  visited,      \* the directories the loop in progress has entered, in order
  slotIdx,      \* analyze_repo: the measure! statement to run next
  texts,        \* analyze_repo: the analyzer locals bound so far
  times,        \* analyze_repo: the Times struct
  procLog,      \* every Command::output() attempted: [repo, slot, spawn, ms]
  env,          \* the machine's analyzers
  proc,         \* the process outcome given to a single run_cmd / run_ext_cmd
  ret           \* what that single call returned

vars ==
  <<cmd, pc, result, calls, csvFile, namesFile, root, outputsFile, codeFile, buf,
    rdrPos, names, nameIdx, iter, visited, slotIdx, texts, times, procLog, env, proc, ret>>

fileVars == <<csvFile, namesFile, root, outputsFile, codeFile>>
filterVars == <<rdrPos>>
cloneVars == <<names, nameIdx>>
analyzeVars == <<slotIdx, texts, times, procLog, env>>
cmdVars == <<proc, ret>>

NoProc == [spawn |-> FALSE, stdout |-> <<>>, stderr |-> <<>>, exit |-> 0, ms |-> 0]
NoRet == [ok |-> FALSE, text |-> <<>>]

\* Everything but the command and the files, before anything ran.
Fresh ==
  /\ result = "none"
  /\ calls = <<>>
  /\ buf = <<>>
  /\ rdrPos = 0
  /\ names = <<>>
  /\ nameIdx = 0
  /\ iter = {}
  /\ visited = <<>>
  /\ slotIdx = 0
  /\ texts = <<>>
  /\ times = ZeroTimes
  /\ procLog = <<>>
  /\ env = NoEnv
  /\ proc = NoProc
  /\ ret = NoRet

Enter(fn) == Append(calls, [fn |-> fn, res |-> "running"])
Finished(cs, ok) == [cs EXCEPT ![Len(cs)].res = IF ok THEN "Ok" ELSE "Err"]

\* main's match: a sub-command's result is main's result; inside run_full the
\* step's result decides what comes next.
AfterReturn(fn, ok) == IF cmd = "Full" THEN run_full_next(fn, ok) ELSE "done"

\* The function fn, entered earlier, returns ok.
Return(fn, ok) ==
  /\ calls' = Finished(calls, ok)
  /\ pc' = AfterReturn(fn, ok)
  /\ result' = IF AfterReturn(fn, ok) = "done" THEN (IF ok THEN "Ok" ELSE "Err") ELSE "none"

\* The function fn returns ok in the step that enters it.
EnterReturn(fn, ok) ==
  /\ calls' = Finished(Enter(fn), ok)
  /\ pc' = AfterReturn(fn, ok)
  /\ result' = IF AfterReturn(fn, ok) = "done" THEN (IF ok THEN "Ok" ELSE "Err") ELSE "none"

(* ----------------------------- filter_csv ------------------------------ *)

\* Lines 84-85: open the reader and create the output.
FilterOpen ==
  /\ pc = "filter_csv"
  /\ \E created \in BOOLEAN :
       IF csvFile.exists /\ created
       THEN /\ namesFile' = EmptyFile
            /\ buf' = <<>>
            /\ rdrPos' = FirstDataRecord
            /\ calls' = Enter("filter_csv")
            /\ pc' = "filter_loop"
            /\ UNCHANGED result
       ELSE /\ EnterReturn("filter_csv", FALSE)
            /\ UNCHANGED <<namesFile, buf, rdrPos>>
  /\ UNCHANGED <<cmd, csvFile, root, outputsFile, codeFile>>
  /\ UNCHANGED <<cloneVars, iter, visited, analyzeVars, cmdVars>>

\* Lines 86-91, one record: a record that does not deserialize ends filter_csv
\* with the error, dropping (and so flushing) the writer.
FilterRow ==
  /\ pc = "filter_loop"
  /\ rdrPos <= Len(csvFile.records)
  /\ LET d == Deserialize(csvFile.records[rdrPos])
         st == [file |-> namesFile.content, buf |-> buf]
         line == <<Piece("str", "-", d.name), Newline>>
         wr == IF Keep(d.has_toml, d.has_lock) THEN BufWriteAll(st, line) ELSE st
     IN IF d.ok
        THEN /\ namesFile' = [namesFile EXCEPT !.content = wr.file]
             /\ buf' = wr.buf
             /\ rdrPos' = rdrPos + 1
             /\ UNCHANGED <<pc, result, calls>>
        ELSE /\ namesFile' = [namesFile EXCEPT !.content = BufDrop(st).file]
             /\ buf' = BufDrop(st).buf
             /\ Return("filter_csv", FALSE)
             /\ UNCHANGED rdrPos
  /\ UNCHANGED <<cmd, csvFile, root, outputsFile, codeFile>>
  /\ UNCHANGED <<cloneVars, iter, visited, analyzeVars, cmdVars>>

\* Line 92: the reader is exhausted; Ok(()) and the drop of w.
FilterEnd ==
  /\ pc = "filter_loop"
  /\ rdrPos > Len(csvFile.records)
  /\ LET st == BufDrop([file |-> namesFile.content, buf |-> buf])
     IN /\ namesFile' = [namesFile EXCEPT !.content = st.file]
        /\ buf' = st.buf
  /\ Return("filter_csv", TRUE)
  /\ UNCHANGED <<cmd, csvFile, root, outputsFile, codeFile>>
  /\ UNCHANGED <<filterVars, cloneVars, iter, visited, analyzeVars, cmdVars>>

(* ----------------------------- clone_repos ----------------------------- *)

\* Line 96-97: read the names file and split it into lines.
CloneRead ==
  /\ pc = "clone_repos"
  /\ IF namesFile.exists
     THEN /\ names' = [i \in 1..Len(SplitLines(namesFile.content)) |->
                         LineText(SplitLines(namesFile.content)[i])]
          /\ nameIdx' = 1
          /\ calls' = Enter("clone_repos")
          /\ pc' = "clone_loop"
          /\ UNCHANGED result
     ELSE /\ EnterReturn("clone_repos", FALSE)
          /\ UNCHANGED <<names, nameIdx>>
  /\ UNCHANGED <<cmd, fileVars, buf, filterVars, iter, visited, analyzeVars, cmdVars>>

\* The directory named d under the root, if any.
Lookup(d) == { e \in root.entries : e.name = d }

\* Lines 98-105, one name: create the destination, then clone into it. The
\* clone fails when the remote cannot be fetched and when the destination
\* already holds something.
CloneOne ==
  /\ pc = "clone_loop"
  /\ nameIdx <= Len(names)
  /\ \E mkdir \in BOOLEAN, fetched \in BOOLEAN :
       LET name == names[nameIdx]
           dest == Dest(name)
           old == Lookup(dest)
           empty == \A e \in old : e.files = {}
           made == [exists |-> TRUE,
                    entries |-> IF old = {} THEN root.entries \cup {DirEntry(dest, {}, <<>>)}
                                ELSE root.entries]
           cloned == [exists |-> TRUE,
                      entries |-> (made.entries \ {DirEntry(dest, {}, <<>>)})
                                    \cup {DirEntry(dest, RemoteFiles, name)}]
       IN IF ~mkdir
          THEN /\ Return("clone_repos", FALSE)
               /\ UNCHANGED <<root, nameIdx>>
          ELSE IF fetched /\ empty
               THEN /\ root' = cloned
                    /\ nameIdx' = nameIdx + 1
                    /\ UNCHANGED <<pc, result, calls>>
               ELSE /\ root' = made
                    /\ Return("clone_repos", FALSE)
                    /\ UNCHANGED nameIdx
  /\ UNCHANGED <<cmd, csvFile, namesFile, outputsFile, codeFile, buf, names>>
  /\ UNCHANGED <<filterVars, iter, visited, analyzeVars, cmdVars>>

\* Line 107.
CloneEnd ==
  /\ pc = "clone_loop"
  /\ nameIdx > Len(names)
  /\ Return("clone_repos", TRUE)
  /\ UNCHANGED <<cmd, fileVars, buf, filterVars, cloneVars, iter, visited, analyzeVars, cmdVars>>

(* ------------------------------ run_outputs ---------------------------- *)

\* Lines 111-112: create the output, open the directory. Which analyzers the
\* machine has is fixed from here on.
OutputsOpen ==
  /\ pc = "run_outputs"
  /\ \E created \in BOOLEAN, e \in Envs :
       IF ~created
       THEN /\ EnterReturn("run_outputs", FALSE)
            /\ UNCHANGED <<outputsFile, buf, iter, visited, env>>
       ELSE /\ outputsFile' = EmptyFile
            /\ buf' = <<>>
            /\ IF root.exists
               THEN /\ iter' = root.entries
                    /\ visited' = <<>>
                    /\ env' = e
                    /\ calls' = Enter("run_outputs")
                    /\ pc' = "outputs_loop"
                    /\ UNCHANGED result
               ELSE /\ EnterReturn("run_outputs", FALSE)
                    /\ UNCHANGED <<iter, visited, env>>
  /\ UNCHANGED <<cmd, csvFile, namesFile, root, codeFile>>
  /\ UNCHANGED <<filterVars, cloneVars, slotIdx, texts, times, procLog, cmdVars>>

\* Lines 112-116, one entry of the directory, in whatever order the file
\* system yields them: an Err entry ends run_outputs, an entry that is no
\* directory is passed over, a directory enters analyze_repo (line 124).
OutputsNext ==
  /\ pc = "outputs_loop"
  /\ iter # {}
  /\ \E entry \in iter \cup {ErrEntry} :
       IF entry.kind = "err"
       THEN /\ outputsFile' = [outputsFile EXCEPT !.content = @ \o buf]
            /\ buf' = <<>>
            /\ Return("run_outputs", FALSE)
            /\ UNCHANGED <<iter, visited, slotIdx, texts, times>>
       ELSE /\ iter' = iter \ {entry}
            /\ IF is_dir(entry)
               THEN /\ visited' = Append(visited, entry.name)
                    /\ times' = ZeroTimes
                    /\ texts' = <<>>
                    /\ slotIdx' = 1
                    /\ pc' = "analyze_repo"
               ELSE UNCHANGED <<visited, times, texts, slotIdx, pc>>
            /\ UNCHANGED <<outputsFile, buf, result, calls>>
  /\ UNCHANGED <<cmd, csvFile, namesFile, root, codeFile>>
  /\ UNCHANGED <<filterVars, cloneVars, procLog, env, cmdVars>>

\* One measure! statement (lines 125-143): the `?` is part of the measured
\* expression, so an invocation error leaves analyze_repo before line 129
\* assigns the time, and the `?` of line 116 leaves run_outputs.
Measure ==
  /\ pc = "analyze_repo"
  /\ slotIdx <= NumSlots
  /\ LET slot == InvocationOrder[slotIdx]
         p == ProcOf(env, slot)
         res == IF Runner(slot) = "run_cmd" THEN run_cmd(p) ELSE run_ext_cmd(p)
     IN /\ procLog' = Append(procLog, [repo |-> visited[Len(visited)], slot |-> slot,
                                        spawn |-> p.spawn, ms |-> p.ms])
        /\ IF res.ok
           THEN /\ texts' = texts @@ (slot :> res.text)
                /\ times' = [times EXCEPT ![slot] = p.ms]
                /\ slotIdx' = slotIdx + 1
                /\ UNCHANGED <<pc, result, calls, outputsFile, buf>>
           ELSE /\ outputsFile' = [outputsFile EXCEPT !.content = @ \o buf]
                /\ buf' = <<>>
                /\ Return("run_outputs", FALSE)
                /\ UNCHANGED <<texts, times, slotIdx>>
  /\ UNCHANGED <<cmd, csvFile, namesFile, root, codeFile>>
  /\ UNCHANGED <<filterVars, cloneVars, iter, visited, env, cmdVars>>

\* Lines 145-158 and 117-118: the OutputEntry is built, serialized into w and
\* followed by a newline.
AnalyzeReturn ==
  /\ pc = "analyze_repo"
  /\ slotIdx > NumSlots
  /\ LET out == [name |-> visited[Len(visited)], texts |-> texts, time_ms |-> times]
         st == BufWriteAll([file |-> outputsFile.content, buf |-> buf],
                           Serialize(out) \o <<Newline>>)
     IN /\ outputsFile' = [outputsFile EXCEPT !.content = st.file]
        /\ buf' = st.buf
  /\ pc' = "outputs_loop"
  /\ UNCHANGED <<cmd, result, calls, csvFile, namesFile, root, codeFile>>
  /\ UNCHANGED <<filterVars, cloneVars, iter, visited, analyzeVars, cmdVars>>

\* Line 120: the directory is exhausted; Ok(()) and the drop of w.
OutputsEnd ==
  /\ pc = "outputs_loop"
  /\ iter = {}
  /\ LET st == BufDrop([file |-> outputsFile.content, buf |-> buf])
     IN /\ outputsFile' = [outputsFile EXCEPT !.content = st.file]
        /\ buf' = st.buf
  /\ Return("run_outputs", TRUE)
  /\ UNCHANGED <<cmd, csvFile, namesFile, root, codeFile>>
  /\ UNCHANGED <<filterVars, cloneVars, iter, visited, analyzeVars, cmdVars>>

\* The process is killed while run_outputs runs: nothing is dropped, so what
\* the BufWriter holds never reaches the file.
Kill ==
  /\ pc \in {"outputs_loop", "analyze_repo"}
  /\ pc' = "killed"
  /\ buf' = <<>>
  /\ UNCHANGED <<cmd, result, calls, fileVars>>
  /\ UNCHANGED <<filterVars, cloneVars, iter, visited, analyzeVars, cmdVars>>

(* --------------------------- collect_code_all -------------------------- *)

\* Lines 179-180.
CollectOpen ==
  /\ pc = "collect_code_all"
  /\ \E created \in BOOLEAN :
       IF ~created
       THEN /\ EnterReturn("collect_code_all", FALSE)
            /\ UNCHANGED <<codeFile, buf, iter, visited>>
       ELSE /\ codeFile' = EmptyFile
            /\ buf' = <<>>
            /\ IF root.exists
               THEN /\ iter' = root.entries
                    /\ visited' = <<>>
                    /\ calls' = Enter("collect_code_all")
                    /\ pc' = "collect_loop"
                    /\ UNCHANGED result
               ELSE /\ EnterReturn("collect_code_all", FALSE)
                    /\ UNCHANGED <<iter, visited>>
  /\ UNCHANGED <<cmd, csvFile, namesFile, root, outputsFile>>
  /\ UNCHANGED <<filterVars, cloneVars, analyzeVars, cmdVars>>

\* Lines 180-188, one entry: collect_code walks the repository in the order the
\* file system gives, and every CodeEntry is written with the directory's name.
CollectNext ==
  /\ pc = "collect_loop"
  /\ iter # {}
  /\ \E entry \in iter \cup {ErrEntry} :
       IF entry.kind = "err"
       THEN /\ codeFile' = [codeFile EXCEPT !.content = @ \o buf]
            /\ buf' = <<>>
            /\ Return("collect_code_all", FALSE)
            /\ UNCHANGED <<iter, visited>>
       ELSE /\ iter' = iter \ {entry}
            /\ IF is_dir(entry)
               THEN \E walk \in Perms({ f \in entry.files : Collected(f) }) :
                      LET st == BufWriteAll(
                                  [file |-> codeFile.content, buf |-> buf],
                                  Flatten([i \in 1..Len(walk) |-> SerializeCode(entry.name, walk[i])]))
                      IN /\ codeFile' = [codeFile EXCEPT !.content = st.file]
                         /\ buf' = st.buf
                         /\ visited' = Append(visited, entry.name)
               ELSE UNCHANGED <<codeFile, buf, visited>>
            /\ UNCHANGED <<pc, result, calls>>
  /\ UNCHANGED <<cmd, csvFile, namesFile, root, outputsFile>>
  /\ UNCHANGED <<filterVars, cloneVars, analyzeVars, cmdVars>>

\* Line 190.
CollectEnd ==
  /\ pc = "collect_loop"
  /\ iter = {}
  /\ LET st == BufDrop([file |-> codeFile.content, buf |-> buf])
     IN /\ codeFile' = [codeFile EXCEPT !.content = st.file]
        /\ buf' = st.buf
  /\ Return("collect_code_all", TRUE)
  /\ UNCHANGED <<cmd, csvFile, namesFile, root, outputsFile>>
  /\ UNCHANGED <<filterVars, cloneVars, iter, visited, analyzeVars, cmdVars>>

(* ------------------------------ run_full ------------------------------- *)

\* Lines 229-237: without input.csv run_full warns and returns Ok(()).
RunFull ==
  /\ pc = "run_full"
  /\ IF csvFile.exists
     THEN /\ pc' = "filter_csv"
          /\ UNCHANGED result
     ELSE /\ pc' = "done"
          /\ result' = "Ok"
  /\ UNCHANGED <<cmd, calls, fileVars, buf>>
  /\ UNCHANGED <<filterVars, cloneVars, iter, visited, analyzeVars, cmdVars>>

(* ---------------------- a single runner invocation --------------------- *)

RunCmd ==
  /\ pc = "run_cmd"
  /\ ret' = run_cmd(proc)
  /\ pc' = "returned"
  /\ UNCHANGED <<cmd, result, calls, fileVars, buf, proc>>
  /\ UNCHANGED <<filterVars, cloneVars, iter, visited, analyzeVars>>

RunExtCmd ==
  /\ pc = "run_ext_cmd"
  /\ ret' = run_ext_cmd(proc)
  /\ pc' = "returned"
  /\ UNCHANGED <<cmd, result, calls, fileVars, buf, proc>>
  /\ UNCHANGED <<filterVars, cloneVars, iter, visited, analyzeVars>>

(* --------------------------- specifications ---------------------------- *)

\* The entries a root given to run_outputs may hold.
RootPool ==
  { DirEntry(Dest(<<"a">>), RemoteFiles, <<"a">>),
    DirEntry(Dest(<<"a", "/", "a">>), RemoteFiles, <<"a", "/", "a">>),
    DirEntry(<<"scratch">>, {}, <<>>),
    FileEntry(<<"README">>) }
Roots ==
  {NoRoot} \cup { [exists |-> TRUE, entries |-> es] :
                    es \in { x \in SUBSET RootPool : Cardinality(x) <= MaxEntries } }

\* dataset_builder <token> filter <csv> <out>
InitFilter ==
  /\ cmd = "Filter"
  /\ pc = "filter_csv"
  /\ csvFile \in CsvFiles \cup {NoCsv}
  /\ namesFile = NoFile
  /\ root = NoRoot
  /\ outputsFile = NoFile
  /\ codeFile = NoFile
  /\ Fresh
NextFilter == FilterOpen \/ FilterRow \/ FilterEnd
SpecFilter == InitFilter /\ [][NextFilter]_vars

\* dataset_builder <token> clone <names> <out>
InitClone ==
  /\ cmd = "Clone"
  /\ pc = "clone_repos"
  /\ csvFile = NoCsv
  /\ namesFile \in NamesFiles \cup {NoFile}
  /\ root = NoRoot
  /\ outputsFile = NoFile
  /\ codeFile = NoFile
  /\ Fresh
NextClone == CloneRead \/ CloneOne \/ CloneEnd
SpecClone == InitClone /\ [][NextClone]_vars

\* dataset_builder <token> outputs <root> <outputs>, which may be killed.
InitOutputs ==
  /\ cmd = "Outputs"
  /\ pc = "run_outputs"
  /\ csvFile = NoCsv
  /\ namesFile = NoFile
  /\ root \in Roots
  /\ outputsFile = NoFile
  /\ codeFile = NoFile
  /\ Fresh
NextOutputs == OutputsOpen \/ OutputsNext \/ Measure \/ AnalyzeReturn \/ OutputsEnd \/ Kill
SpecOutputs == InitOutputs /\ [][NextOutputs]_vars

\* dataset_builder <token> full
InitFull ==
  /\ cmd = "Full"
  /\ pc = "run_full"
  /\ csvFile \in CsvFiles \cup {NoCsv}
  /\ namesFile = NoFile
  /\ root = NoRoot
  /\ outputsFile = NoFile
  /\ codeFile = NoFile
  /\ Fresh
NextFull ==
  \/ RunFull
  \/ FilterOpen \/ FilterRow \/ FilterEnd
  \/ CloneRead \/ CloneOne \/ CloneEnd
  \/ OutputsOpen \/ OutputsNext \/ Measure \/ AnalyzeReturn \/ OutputsEnd
  \/ CollectOpen \/ CollectNext \/ CollectEnd
SpecFull == InitFull /\ [][NextFull]_vars

\* One call of run_cmd or run_ext_cmd on every outcome of the spawn.
InitCmd ==
  /\ cmd \in {"run_cmd", "run_ext_cmd"}
  /\ pc = cmd
  /\ csvFile = NoCsv
  /\ namesFile = NoFile
  /\ root = NoRoot
  /\ outputsFile = NoFile
  /\ codeFile = NoFile
  /\ result = "none"
  /\ calls = <<>>
  /\ buf = <<>>
  /\ rdrPos = 0
  /\ names = <<>>
  /\ nameIdx = 0
  /\ iter = {}
  /\ visited = <<>>
  /\ slotIdx = 0
  /\ texts = <<>>
  /\ times = ZeroTimes
  /\ procLog = <<>>
  /\ env = NoEnv
  /\ proc \in ProcOutcomes
  /\ ret = NoRet
NextCmd == RunCmd \/ RunExtCmd
SpecCmd == InitCmd /\ [][NextCmd]_vars

\* Every sub-command of main.
Init == InitFilter \/ InitClone \/ InitOutputs \/ InitFull \/ InitCmd
Next == NextFull \/ Kill \/ NextCmd
Spec == Init /\ [][Next]_vars

(* ------------------------------- claims -------------------------------- *)

\* The complete lines of the outputs file, and what a line says.
OutLines == CompleteLines(outputsFile.content)
LineName(l) == l[1].v
HasLine(repo) ==
  \E i \in 1..Len(OutLines) :
    Len(OutLines[i]) > 0 /\ OutLines[i][1].k = "name" /\ LineName(OutLines[i]) = repo
FieldsOf(l, kind) == { i \in 1..Len(l) : l[i].k = kind }
ValueOf(l, kind, slot) ==
  l[CHOOSE i \in 1..Len(l) : l[i].k = kind /\ l[i].slot = slot].v
HasField(l, kind, slot) == \E i \in 1..Len(l) : l[i].k = kind /\ l[i].slot = slot
LineOf(repo) ==
  OutLines[CHOOSE i \in 1..Len(OutLines) : LineName(OutLines[i]) = repo]
\* The spawns attempted for one repository, in the order they were attempted.
InvokedFor(repo) == SelectSeq(procLog, LAMBDA e : e.repo = repo)
DirsOf(r) == { e \in r.entries : e.kind = "dir" }

\* C1: once run_outputs has returned, for every spawn that failed, every
\* analyzer after it in the list was still invoked for that repository and the
\* repository has its complete record.
C1_SpawnErrorDoesNotStopAnalyzers ==
  pc = "done" =>
    \A i \in 1..Len(procLog) :
      ~procLog[i].spawn =>
        /\ \A k \in (IndexOf(InvocationOrder, procLog[i].slot) + 1)..NumSlots :
             \E j \in (i + 1)..Len(procLog) :
               procLog[j].repo = procLog[i].repo /\ procLog[j].slot = InvocationOrder[k]
        /\ HasLine(procLog[i].repo)

\* C2: when one executable is not installed and at least one analysis was
\* started, run_outputs returns Ok with one record per subdirectory of the
\* root, each holding a text for every analyzer of the missing executable.
C2_MissingExecutableStillCompletes ==
  (pc = "done" /\ env.kind = "absent" /\ procLog # <<>>) =>
    /\ result = "Ok"
    /\ \A d \in DirsOf(root) :
         /\ HasLine(d.name)
         /\ \A s \in Slots : Exe(s) = env.who => HasField(LineOf(d.name), "text", s)

\* C3: once run_outputs has returned, every spawn attempted, failed ones
\* included, has its elapsed time in the time_ms of its repository's record.
C3_TimeRecordedOnInvocationError ==
  pc = "done" =>
    \A i \in 1..Len(procLog) :
      /\ HasLine(procLog[i].repo)
      /\ HasField(LineOf(procLog[i].repo), "time_ms", procLog[i].slot)
      /\ ValueOf(LineOf(procLog[i].repo), "time_ms", procLog[i].slot) = procLog[i].ms
      /\ ValueOf(LineOf(procLog[i].repo), "time_ms", procLog[i].slot) \in Nat

\* C4: while a repository is analyzed, and after a kill, every repository
\* entered before the last one has its complete line in the output file.
C4_EarlierRecordsDurable ==
  pc \in {"analyze_repo", "killed"} =>
    \A i \in 1..(Len(visited) - 1) : HasLine(visited[i])

\* C5: in every record of the output file, the k-th text field and the k-th
\* time_ms field are those of the k-th analyzer invoked for that repository.
C5_FieldOrderIsInvocationOrder ==
  \A n \in 1..Len(OutLines) :
    LET l == OutLines[n]
        inv == InvokedFor(LineName(l))
    IN \A k \in 1..NumSlots :
         /\ k <= Len(inv)
         /\ l[1 + k].k = "text" /\ l[1 + k].slot = inv[k].slot
         /\ l[1 + NumSlots + k].k = "time_ms" /\ l[1 + NumSlots + k].slot = inv[k].slot

\* C6: a run of run_outputs that returned Ok left exactly one line per
\* subdirectory of the root and none for other entries, in the order the
\* directories were enumerated, each named after its directory and holding
\* exactly one text and one time for each of the ten analyzers.
C6_OneLinePerDirectory ==
  (cmd = "Outputs" /\ pc = "done" /\ result = "Ok") =>
    /\ SplitLines(outputsFile.content) = OutLines
    /\ Len(OutLines) = Cardinality(DirsOf(root))
    /\ Len(OutLines) = Len(visited)
    /\ { visited[i] : i \in 1..Len(visited) } = { d.name : d \in DirsOf(root) }
    /\ \A i \in 1..Len(OutLines) :
         LET l == OutLines[i]
         IN /\ FieldsOf(l, "name") = {1}
            /\ LineName(l) = visited[i]
            /\ Len(l) = 1 + 2 * NumSlots
            /\ Cardinality(FieldsOf(l, "text")) = NumSlots
            /\ Cardinality(FieldsOf(l, "time_ms")) = NumSlots
            /\ \A s \in Slots : HasField(l, "text", s) /\ HasField(l, "time_ms", s)

\* C6 witness: a completed run over two directories and a plain file, on a
\* machine where one analyzer exits non-zero.
C6_Witness ==
  /\ cmd = "Outputs" /\ pc = "done" /\ result = "Ok"
  /\ Cardinality(DirsOf(root)) = 2
  /\ \E e \in root.entries : e.kind = "file"
  /\ env.kind = "nonzero"
  /\ Len(OutLines) = 2

\* C7: a call of run_cmd or run_ext_cmd on a process that was spawned returns
\* success with the decoded stdout when stdout is non-empty and the decoded
\* stderr otherwise, whatever the exit status.
C7_RunnerPrefersStdout ==
  (pc = "returned" /\ proc.spawn) =>
    /\ ret.ok
    /\ proc.stdout # <<>> => ret.text = from_utf8_lossy(proc.stdout)
    /\ proc.stdout = <<>> => ret.text = from_utf8_lossy(proc.stderr)

\* C7 witness: a process that exited non-zero with nothing on stdout and
\* something on stderr, whose stderr came back as a success.
C7_Witness ==
  /\ pc = "returned" /\ proc.spawn
  /\ proc.exit # 0 /\ proc.stdout = <<>> /\ proc.stderr # <<>>
  /\ ret.ok /\ Len(ret.text) = Len(proc.stderr)

\* The data rows of the CSV, and whether every one of them deserializes.
DataRows == SubSeq(csvFile.records, FirstDataRecord, Len(csvFile.records))
WellFormed ==
  /\ csvFile.exists
  /\ \A i \in 1..Len(DataRows) :
       DataRows[i].has_toml \in {"true", "false"} /\ DataRows[i].has_lock \in {"true", "false"}
BothTrue == SelectSeq(DataRows, LAMBDA r : r.has_toml = "true" /\ r.has_lock = "true")

\* C8: on a well-formed CSV whose output could be created, filter_csv returns
\* Ok and the output holds, one per line and in input order, exactly the names
\* of the rows whose two flags are both true.
C8_FilterKeepsBothFlags ==
  (cmd = "Filter" /\ pc = "done" /\ WellFormed /\ namesFile.exists) =>
    /\ result = "Ok"
    /\ SplitLines(namesFile.content) = CompleteLines(namesFile.content)
    /\ Len(CompleteLines(namesFile.content)) = Len(BothTrue)
    /\ \A i \in 1..Len(BothTrue) :
         LineText(CompleteLines(namesFile.content)[i]) = BothTrue[i].name

\* C8 witness: the scenario of a row with both flags true followed by a row
\* with the lockfile flag false; only the first name was written.
C8_Witness ==
  /\ cmd = "Filter" /\ pc = "done" /\ result = "Ok"
  /\ Len(DataRows) = 2
  /\ DataRows[1].has_toml = "true" /\ DataRows[1].has_lock = "true"
  /\ DataRows[2].has_toml = "true" /\ DataRows[2].has_lock = "false"
  /\ DataRows[1].name # DataRows[2].name
  /\ Len(CompleteLines(namesFile.content)) = 1

PipelineOrder == <<"filter_csv", "clone_repos", "run_outputs", "collect_code_all">>

\* C9: in run_full the steps entered are a prefix of filter, clone, analyze,
\* collect; a step is entered only after the one before returned Ok; run_full
\* returns the error of the step that failed, Ok after all four, and Ok with no
\* step at all when input.csv does not exist.
C9_RunFullSequencing ==
  /\ Len(calls) <= Len(PipelineOrder)
  /\ \A i \in 1..Len(calls) : calls[i].fn = PipelineOrder[i]
  /\ \A i \in 1..(Len(calls) - 1) : calls[i].res = "Ok"
  /\ ~csvFile.exists => (calls = <<>> /\ (pc = "done" => result = "Ok"))
  /\ pc # "done" => result = "none"
  /\ (pc = "done" /\ csvFile.exists) =>
       /\ Len(calls) >= 1
       /\ calls[Len(calls)].res \in {"Ok", "Err"}
       /\ result = calls[Len(calls)].res
       /\ result = "Ok" => Len(calls) = Len(PipelineOrder)

\* C9 witness: the analysis step failed after filter and clone succeeded, and
\* run_full ended with the error without entering the collect step.
C9_Witness ==
  /\ cmd = "Full" /\ pc = "done" /\ result = "Err"
  /\ Len(calls) = 3
  /\ calls[1].res = "Ok" /\ calls[2].res = "Ok" /\ calls[3].res = "Err"
  /\ ~codeFile.exists

\* Two names that are equal once every '/' and '_' are taken for the same
\* character.
SameUpToSlash(a, b) ==
  /\ Len(a) = Len(b)
  /\ \A i \in 1..Len(a) : a[i] = b[i] \/ {a[i], b[i]} = {"/", "_"}

\* C10 as stated: any two distinct names of the list have distinct
\* destination subdirectories.
C10_DistinctNamesDistinctDirs ==
  pc \in {"clone_loop", "done"} =>
    \A i, j \in 1..Len(names) :
      names[i] # names[j] => Dest(names[i]) # Dest(names[j])

\* C10 amended: two names of the list have the same destination subdirectory
\* exactly when they are equal up to '/' versus '_'; a directory under the root
\* holds the repository of one name only, the one it is the destination of; and
\* when clone_repos returns Ok every name of the list has its own directory.
C10_DirsDistinctUpToSlash ==
  pc \in {"clone_loop", "done"} =>
    /\ \A i, j \in 1..Len(names) :
         (Dest(names[i]) = Dest(names[j])) <=> SameUpToSlash(names[i], names[j])
    /\ \A e \in root.entries :
         /\ \A f \in root.entries : f.name = e.name => f = e
         /\ e.files # {} => (e.name[1] = "dataset_" /\ SameUpToSlash(Tail(e.name), e.origin))
    /\ (pc = "done" /\ result = "Ok") =>
         /\ Cardinality(root.entries) = Len(names)
         /\ \A i \in 1..Len(names) : \E e \in root.entries : e.origin = names[i]

\* C10 witness: two distinct names that differ only in '/' versus '_'; the
\* first was fetched into the directory both map to, and clone_repos ended
\* with the error of the second.
C10_Witness ==
  /\ cmd = "Clone" /\ pc = "done" /\ result = "Err"
  /\ Len(names) = 2 /\ nameIdx = 2
  /\ names[1] # names[2]
  /\ SameUpToSlash(names[1], names[2])
  /\ \E e \in root.entries : e.origin = names[1] /\ e.files # {}
  /\ Cardinality(root.entries) = 1

====
